---- MODULE Spec2Model ----
(***************************************************************************)
(* Model of builder/unikraft/driver_kraft_import.go: the target selector   *)
(* FilterTargets and the commands Build.BuildCmd, Pkg.PkgCmd,              *)
(* Pull.PullCmd and Set.SetCmd.                                            *)
(*                                                                         *)
(* Collaborators outside the file (project loader, catalog, package pull,  *)
(* make stages) are modelled by their observable outcome, chosen           *)
(* nondeterministically at the call.  What the command does with that      *)
(* outcome is taken from the source line by line.                          *)
(***************************************************************************)
EXTENDS Integers, Sequences, FiniteSets, TLC

VARIABLES
    pc,            \* position of the running command
    opts,          \* the command's options (Build struct) / call arguments
    targets,       \* project.Targets(), or the `targets` argument
    nComponents,   \* len(project.Components(ctx))
    selected,      \* `selected` of FilterTargets / BuildCmd
    ci,            \* index of the component loop (1-based)
    pi,            \* index of the missingPacks loop (1-based)
    ti,            \* index of the target loop over `selected` (1-based)
    missingPacks,  \* `missingPacks`: packages queued for pull
    hits,          \* history: value returned by each Catalog call so far
    events,        \* history: every collaborator call, in call order
    pullErrs,      \* history: packages whose Pull returned an error
    stageErrs,     \* history: <<stage, index>> whose call returned an error
    log,           \* entries the command writes through log.G(ctx)
    result,        \* the value the command returns
    cancelledAt,   \* Len(events) when ctx was cancelled, NotCancelled before
    args,          \* the command's positional arguments
    env,           \* what the command finds on the file system
    queries,       \* `queries` of PullCmd: (backend, query) pairs
    pm,            \* `pm`: the package manager in use
    format,        \* `format` of PkgCmd for the current target
    routes,        \* history: format and backend of each routing decision
    probes,        \* history: outcome of each IsCompatible call of PullCmd
    workdir,       \* `workdir` of SetCmd
    confOpts       \* `confOpts` of SetCmd

\* The variables only Pkg, Pull, Set and the cancellation of ctx change.
ext == <<cancelledAt, args, env, queries, pm, format, routes, probes,
         workdir, confOpts>>

vars == <<pc, opts, targets, nComponents, selected, ci, pi, ti, missingPacks,
          hits, events, pullErrs, stageErrs, log, result, ext>>

---------------------------------------------------------------------------
(* Bounds of the model *)

MaxFilterTargets == 3
MaxTargets == 2
MaxComponents == 2
MaxCatalogHits == 2
MaxArgs == 3
MaxSetArgs == 2
MaxArgLen == 3

---------------------------------------------------------------------------
(* Input values *)

Target(n, a, p) == [name |-> n, arch |-> a, plat |-> p]

TargetA == Target("A", "x86_64", "qemu")
TargetB == Target("B", "arm64", "qemu")
TargetC == Target("C", "x86_64", "xen")

FilterNames == {"A", "B"}
FilterArchs == {"x86_64", "arm64"}
FilterPlats == {"qemu", "xen"}

FilterUniverse ==
    {Target(n, a, p) : n \in FilterNames, a \in FilterArchs, p \in FilterPlats}

BuildUniverse == {TargetA, TargetB, TargetC}

SeqsUpTo(S, n) == UNION {[1..k -> S] : k \in 0..n}

UniqueNames(ts) ==
    \A i, j \in DOMAIN ts : ts[i].name = ts[j].name => i = j

ArchArgs == {"", "x86_64", "arm64", "riscv64"}
PlatArgs == {"", "qemu", "xen", "fc"}
NameArgs == {"", "A", "B", "Z"}

BuildOpts(a, p, n, nc, np) ==
    [Architecture |-> a, Platform |-> p, Target |-> n,
     NoConfigure |-> nc, NoPrepare |-> np]

---------------------------------------------------------------------------
(* Returned values *)

Running == [kind |-> "running", subject |-> 0]
Nil == [kind |-> "nil", subject |-> 0]
Err(k) == [kind |-> k, subject |-> 0]
ErrOn(k, s) == [kind |-> k, subject |-> s]

CatalogFailed == 0 - 1

DefaultPM == "default"

\* The context: every call that is handed a cancelled ctx returns an error.
NotCancelled == 0 - 1
Cancelled == cancelledAt # NotCancelled
CallOutcomes == IF Cancelled THEN {FALSE} ELSE BOOLEAN
CatalogOutcomes ==
    IF Cancelled THEN {CatalogFailed}
    ELSE {CatalogFailed} \cup (0..MaxCatalogHits)

InitExt ==
    /\ cancelledAt = NotCancelled
    /\ args = <<>>
    /\ env = <<>>
    /\ queries = <<>>
    /\ pm = DefaultPM
    /\ format = ""
    /\ routes = <<>>
    /\ probes = <<>>
    /\ workdir = ""
    /\ confOpts = <<>>

Event(op, n) == <<op, n>>

---------------------------------------------------------------------------
(* FilterTargets *)

Empty(s) == s = ""

CondNoArgsMut(t, arch, plat, targ) == Empty(targ)

CondNoArgs(t, arch, plat, targ) ==
    Empty(targ) /\ Empty(arch) /\ Empty(plat)

CondName(t, arch, plat, targ) ==
    ~Empty(targ) /\ t.name = targ

CondOnlyArch(t, arch, plat, targ) ==
    ~Empty(arch) /\ Empty(plat) /\ t.arch = arch

CondOnlyPlat(t, arch, plat, targ) ==
    ~Empty(plat) /\ Empty(arch) /\ t.plat = plat

CondArchPlat(t, arch, plat, targ) ==
    ~Empty(plat) /\ ~Empty(arch) /\ t.arch = arch /\ t.plat = plat

NumConditions == 5

Condition(c, t, arch, plat, targ) ==
    CASE c = 1 -> CondNoArgs(t, arch, plat, targ)
      [] c = 2 -> CondName(t, arch, plat, targ)
      [] c = 3 -> CondOnlyArch(t, arch, plat, targ)
      [] c = 4 -> CondOnlyPlat(t, arch, plat, targ)
      [] c = 5 -> CondArchPlat(t, arch, plat, targ)

RECURSIVE ConditionLoop(_, _, _, _, _, _)
ConditionLoop(sel, c, t, arch, plat, targ) ==
    IF c > NumConditions THEN sel
    ELSE IF ~Condition(c, t, arch, plat, targ)
         THEN ConditionLoop(sel, c + 1, t, arch, plat, targ)
         ELSE ConditionLoop(Append(sel, t), c + 1, t, arch, plat, targ)

RECURSIVE TargetLoop(_, _, _, _, _, _)
TargetLoop(sel, i, ts, arch, plat, targ) ==
    IF i > Len(ts) THEN sel
    ELSE TargetLoop(ConditionLoop(sel, 1, ts[i], arch, plat, targ),
                    i + 1, ts, arch, plat, targ)

FilterTargets(ts, arch, plat, targ) ==
    TargetLoop(<<>>, 1, ts, arch, plat, targ)

---------------------------------------------------------------------------
(* A direct call of the exported function FilterTargets *)

InitFilter ==
    /\ pc = "call"
    /\ targets \in SeqsUpTo(FilterUniverse, MaxFilterTargets)
    /\ \E a \in ArchArgs, p \in PlatArgs, n \in NameArgs :
           opts = BuildOpts(a, p, n, FALSE, FALSE)
    /\ nComponents = 0
    /\ selected = <<>>
    /\ ci = 1 /\ pi = 1 /\ ti = 1
    /\ missingPacks = <<>>
    /\ hits = <<>>
    /\ events = <<>>
    /\ pullErrs = {}
    /\ stageErrs = {}
    /\ log = <<>>
    /\ result = Running
    /\ InitExt

CallFilterTargets ==
    /\ pc = "call"
    /\ selected' = FilterTargets(targets, opts.Architecture, opts.Platform,
                                 opts.Target)
    /\ pc' = "returned"
    /\ UNCHANGED <<ext, opts, targets, nComponents, ci, pi, ti, missingPacks, hits,
                   events, pullErrs, stageErrs, log, result>>

NextFilter == CallFilterTargets

SpecFilter == InitFilter /\ [][NextFilter]_vars

---------------------------------------------------------------------------
(* Claims about FilterTargets, checked under SpecFilter *)

RECURSIVE IsSubsequence(_, _)
IsSubsequence(s, t) ==
    IF s = <<>> THEN TRUE
    ELSE IF t = <<>> THEN FALSE
    ELSE IF Head(s) = Head(t) THEN IsSubsequence(Tail(s), Tail(t))
    ELSE IsSubsequence(s, Tail(t))

InSeq(x, s) == \E k \in DOMAIN s : s[k] = x

\* The five selection cases of the selector, as one predicate on a target.
Matches(t, arch, plat, targ) ==
    \/ (arch = "" /\ plat = "" /\ targ = "")
    \/ (targ # "" /\ t.name = targ)
    \/ (arch # "" /\ plat = "" /\ t.arch = arch)
    \/ (plat # "" /\ arch = "" /\ t.plat = plat)
    \/ (arch # "" /\ plat # "" /\ t.arch = arch /\ t.plat = plat)

Returned == pc = "returned"

\* C1: for every target list and filter triple, the result of FilterTargets
\* is a subsequence of the input: original relative order, and each input
\* target at most once even when it satisfies several selection cases.
C1_ResultIsSubsequence ==
    Returned => IsSubsequence(selected, targets)

\* C2: for every target list with unique names and every t in it,
\* FilterTargets with name = t.name returns exactly <<t>>, whatever the arch
\* and plat filters are.
C2_NameSelectsExactlyOne ==
    (Returned /\ UniqueNames(targets)) =>
        \A i \in DOMAIN targets :
            opts.Target = targets[i].name => selected = <<targets[i]>>

ScenarioTargets == <<TargetA, TargetB>>

---------------------------------------------------------------------------
(* Build.BuildCmd *)

StageOps == {"configure", "prepare", "build"}

UsageConflictMut(o) ==
    ~Empty(o.Architecture) /\ ~Empty(o.Platform) /\ ~Empty(o.Target)

UsageConflict(o) ==
    (~Empty(o.Architecture) \/ ~Empty(o.Platform)) /\ ~Empty(o.Target)

InitBuild ==
    /\ pc = "start"
    /\ targets \in {ts \in SeqsUpTo(BuildUniverse, MaxTargets) :
                        UniqueNames(ts)}
    /\ \E a \in ArchArgs, p \in PlatArgs, n \in NameArgs, nc, np \in BOOLEAN :
           opts = BuildOpts(a, p, n, nc, np)
    /\ nComponents \in 0..MaxComponents
    /\ selected = <<>>
    /\ ci = 1 /\ pi = 1 /\ ti = 1
    /\ missingPacks = <<>>
    /\ hits = <<>>
    /\ events = <<>>
    /\ pullErrs = {}
    /\ stageErrs = {}
    /\ log = <<>>
    /\ result = Running
    /\ InitExt

\* if (len(arch) > 0 || len(plat) > 0) && len(target) > 0 { return error }
BuildUsage ==
    /\ pc = "start"
    /\ IF UsageConflict(opts)
       THEN pc' = "done" /\ result' = Err("UsageConflict")
       ELSE pc' = "load" /\ UNCHANGED result
    /\ UNCHANGED <<ext, opts, targets, nComponents, selected, ci, pi, ti,
                   missingPacks, hits, events, pullErrs, stageErrs, log>>

\* workdir, app.NewProjectFromOptions, app.IsWorkdirInitialized
BuildLoadProject ==
    /\ pc = "load"
    /\ events' = Append(events, Event("load", 0))
    /\ \E outcome \in {"ok", "LoadError", "Uninitialized"} :
           IF outcome = "ok"
           THEN pc' = "components" /\ UNCHANGED result
           ELSE pc' = "done" /\ result' = Err(outcome)
    /\ UNCHANGED <<ext, opts, targets, nComponents, selected, ci, pi, ti,
                   missingPacks, hits, pullErrs, stageErrs, log>>

\* components, err := project.Components(ctx)
BuildComponents ==
    /\ pc = "components"
    /\ events' = Append(events, Event("components", 0))
    /\ \E ok \in CallOutcomes :
           IF ~ok
           THEN pc' = "done" /\ result' = Err("ComponentsError")
           ELSE /\ pc' = IF nComponents = 0 THEN "select" ELSE "resolve"
                /\ UNCHANGED result
    /\ ci' = 1
    /\ UNCHANGED <<ext, opts, targets, nComponents, selected, pi, ti,
                   missingPacks, hits, pullErrs, stageErrs, log>>

\* Where the command goes after the component loop: the pull loop runs only
\* if len(missingPacks) > 0.
AfterResolve(packs) == IF Len(packs) > 0 THEN "pull" ELSE "select"

\* BuildCatalog taking the first package when the catalog returns several.
BuildCatalogMut ==
    /\ pc = "resolve"
    /\ ci <= nComponents
    /\ events' = Append(events, Event("catalog", ci))
    /\ \E n \in CatalogOutcomes :
           /\ hits' = Append(hits, n)
           /\ IF n = CatalogFailed
              THEN /\ pc' = "done" /\ result' = ErrOn("CatalogError", ci)
                   /\ UNCHANGED <<ci, missingPacks>>
              ELSE IF n = 0
              THEN /\ pc' = "done" /\ result' = ErrOn("NotFound", ci)
                   /\ UNCHANGED <<ci, missingPacks>>
              ELSE /\ missingPacks' = Append(missingPacks, ci)
                   /\ ci' = ci + 1
                   /\ pc' = IF ci = nComponents
                            THEN AfterResolve(missingPacks')
                            ELSE "resolve"
                   /\ UNCHANGED result
    /\ pi' = 1
    /\ UNCHANGED <<ext, opts, targets, nComponents, selected, ti, pullErrs,
                   stageErrs, log>>

\* One iteration of `for _, component := range components`.
BuildCatalog ==
    /\ pc = "resolve"
    /\ ci <= nComponents
    /\ events' = Append(events, Event("catalog", ci))
    /\ \E n \in CatalogOutcomes :
           /\ hits' = Append(hits, n)
           /\ IF n = CatalogFailed
              THEN /\ pc' = "done" /\ result' = ErrOn("CatalogError", ci)
                   /\ UNCHANGED <<ci, missingPacks>>
              ELSE IF n = 0
              THEN /\ pc' = "done" /\ result' = ErrOn("NotFound", ci)
                   /\ UNCHANGED <<ci, missingPacks>>
              ELSE IF n > 1
              THEN /\ pc' = "done" /\ result' = ErrOn("Ambiguous", ci)
                   /\ UNCHANGED <<ci, missingPacks>>
              ELSE /\ missingPacks' = Append(missingPacks, ci)
                   /\ ci' = ci + 1
                   /\ pc' = IF ci = nComponents
                            THEN AfterResolve(missingPacks')
                            ELSE "resolve"
                   /\ UNCHANGED result
    /\ pi' = 1
    /\ UNCHANGED <<ext, opts, targets, nComponents, selected, ti, pullErrs,
                   stageErrs, log>>

\* One iteration of `for _, p := range missingPacks`: the value p.Pull
\* returns is not assigned.
BuildPull ==
    /\ pc = "pull"
    /\ pi <= Len(missingPacks)
    /\ events' = Append(events, Event("pull", missingPacks[pi]))
    /\ \E ok \in CallOutcomes :
           pullErrs' = IF ok THEN pullErrs ELSE pullErrs \cup {missingPacks[pi]}
    /\ pi' = pi + 1
    /\ pc' = IF pi = Len(missingPacks) THEN "select" ELSE "pull"
    /\ UNCHANGED <<ext, opts, targets, nComponents, selected, ci, ti, missingPacks,
                   hits, stageErrs, log, result>>

\* BuildSelect without the check of an empty selection.
BuildSelectMut ==
    /\ pc = "select"
    /\ events' = Append(events, Event("select", 0))
    /\ selected' = FilterTargets(targets, opts.Architecture, opts.Platform,
                                 opts.Target)
    /\ IF Len(selected') = 0
       THEN pc' = "done" /\ result' = Nil
       ELSE pc' = "configure" /\ UNCHANGED result
    /\ ti' = 1
    /\ UNCHANGED <<ext, opts, targets, nComponents, ci, pi, missingPacks, hits,
                   pullErrs, stageErrs, log>>

\* selected := FilterTargets(...); if len(selected) == 0 { return error }
BuildSelect ==
    /\ pc = "select"
    /\ events' = Append(events, Event("select", 0))
    /\ selected' = FilterTargets(targets, opts.Architecture, opts.Platform,
                                 opts.Target)
    /\ IF Len(selected') = 0
       THEN pc' = "done" /\ result' = Err("NoTargets")
       ELSE pc' = "configure" /\ UNCHANGED result
    /\ ti' = 1
    /\ UNCHANGED <<ext, opts, targets, nComponents, ci, pi, missingPacks, hits,
                   pullErrs, stageErrs, log>>

\* BuildConfigure with the NoConfigure flag not consulted.
BuildConfigureMut ==
    /\ pc = "configure"
    /\ events' = Append(events, Event("configure", ti))
    /\ \E ok \in CallOutcomes :
           stageErrs' = IF ok THEN stageErrs
                        ELSE stageErrs \cup {<<"configure", ti>>}
    /\ pc' = "prepare"
    /\ UNCHANGED <<ext, opts, targets, nComponents, selected, ci, pi, ti,
                   missingPacks, hits, pullErrs, log, result>>

\* if !opts.NoConfigure { project.Configure(ctx, targ, ...) }
BuildConfigure ==
    /\ pc = "configure"
    /\ IF ~opts.NoConfigure
       THEN /\ events' = Append(events, Event("configure", ti))
            /\ \E ok \in CallOutcomes :
                   stageErrs' = IF ok THEN stageErrs
                                ELSE stageErrs \cup {<<"configure", ti>>}
       ELSE UNCHANGED <<events, stageErrs>>
    /\ pc' = "prepare"
    /\ UNCHANGED <<ext, opts, targets, nComponents, selected, ci, pi, ti,
                   missingPacks, hits, pullErrs, log, result>>

\* BuildPrepare returning the stage's error instead of going on to the Build
\* stage of the same target.
BuildPrepareMut ==
    /\ pc = "prepare"
    /\ IF ~opts.NoPrepare
       THEN /\ events' = Append(events, Event("prepare", ti))
            /\ \E ok \in CallOutcomes :
                   /\ stageErrs' = IF ok THEN stageErrs
                                   ELSE stageErrs \cup {<<"prepare", ti>>}
                   /\ IF ok
                      THEN pc' = "build" /\ UNCHANGED result
                      ELSE pc' = "done" /\ result' = ErrOn("StageError", ti)
       ELSE pc' = "build" /\ UNCHANGED <<events, stageErrs, result>>
    /\ UNCHANGED <<ext, opts, targets, nComponents, selected, ci, pi, ti,
                   missingPacks, hits, pullErrs, log>>

\* if !opts.NoPrepare { project.Prepare(ctx, targ, ...) }
BuildPrepare ==
    /\ pc = "prepare"
    /\ IF ~opts.NoPrepare
       THEN /\ events' = Append(events, Event("prepare", ti))
            /\ \E ok \in CallOutcomes :
                   stageErrs' = IF ok THEN stageErrs
                                ELSE stageErrs \cup {<<"prepare", ti>>}
       ELSE UNCHANGED <<events, stageErrs>>
    /\ pc' = "build"
    /\ UNCHANGED <<ext, opts, targets, nComponents, selected, ci, pi, ti,
                   missingPacks, hits, pullErrs, log, result>>

\* BuildBuild returning the stage's error instead of going on to the next
\* target.
BuildBuildMut ==
    /\ pc = "build"
    /\ events' = Append(events, Event("build", ti))
    /\ \E ok \in CallOutcomes :
           /\ stageErrs' = IF ok THEN stageErrs
                           ELSE stageErrs \cup {<<"build", ti>>}
           /\ IF ~ok
              THEN pc' = "done" /\ result' = ErrOn("StageError", ti)
                   /\ UNCHANGED ti
              ELSE IF ti = Len(selected)
              THEN pc' = "done" /\ result' = Nil /\ UNCHANGED ti
              ELSE pc' = "configure" /\ ti' = ti + 1 /\ UNCHANGED result
    /\ UNCHANGED <<ext, opts, targets, nComponents, selected, ci, pi,
                   missingPacks, hits, pullErrs, log>>

\* project.Build(ctx, targ, ...), the end of the loop body, and `return nil`
\* after the last selected target.
BuildBuild ==
    /\ pc = "build"
    /\ events' = Append(events, Event("build", ti))
    /\ \E ok \in CallOutcomes :
           stageErrs' = IF ok THEN stageErrs
                        ELSE stageErrs \cup {<<"build", ti>>}
    /\ IF ti = Len(selected)
       THEN pc' = "done" /\ result' = Nil /\ UNCHANGED ti
       ELSE pc' = "configure" /\ ti' = ti + 1 /\ UNCHANGED result
    /\ UNCHANGED <<ext, opts, targets, nComponents, selected, ci, pi,
                   missingPacks, hits, pullErrs, log>>

NextBuild ==
    \/ BuildUsage
    \/ BuildLoadProject
    \/ BuildComponents
    \/ BuildCatalog
    \/ BuildPull
    \/ BuildSelect
    \/ BuildConfigure
    \/ BuildPrepare
    \/ BuildBuild

SpecBuild == InitBuild /\ [][NextBuild]_vars

\* BuildCmd is straight-line sequential code over finite loops: once called,
\* its next statement is always executed (every collaborator call returns).
SpecBuildFair == InitBuild /\ [][NextBuild]_vars /\ WF_vars(NextBuild)

---------------------------------------------------------------------------
(* Claims about Build, checked under SpecBuild *)

IsStageEvent(e) == e[1] \in StageOps
IsCatalogEvent(e) == e[1] = "catalog"
IsPullEvent(e) == e[1] = "pull"

StageEvents == SelectSeq(events, IsStageEvent)
CatalogEvents == SelectSeq(events, IsCatalogEvent)
PullEvents == SelectSeq(events, IsPullEvent)

Called(op, n) == InSeq(Event(op, n), events)

IsPrefix(s, t) == Len(s) <= Len(t) /\ SubSeq(t, 1, Len(s)) = s

Done == pc = "done"

\* C4: Build with a non-empty name filter together with a non-empty arch or
\* plat filter fails with a usage-conflict error whatever the project's
\* targets are, before the project is loaded, before any catalog query or
\* pull, and before target selection or any stage.
C4_UsageConflictFirst ==
    (opts.Target # "" /\ (opts.Architecture # "" \/ opts.Platform # "")) =>
        /\ events = <<>>
        /\ selected = <<>>
        /\ pc # "start" => (Done /\ result = Err("UsageConflict"))

C4_Witness ==
    /\ Done
    /\ opts.Target = "A" /\ opts.Architecture = "x86_64" /\ opts.Platform = ""
    /\ targets = <<TargetA, TargetB>>
    /\ result = Err("UsageConflict")

\* C5: components are resolved in declaration order with one catalog query
\* each; 0 packages fails the command with a not-found error naming the
\* component, 2 or more with an ambiguous error naming it, and only exactly
\* 1 queues the package for pull.  When a component fails to resolve (or
\* its query errors) the command aborts at once: nothing is pulled, no
\* target is selected and no stage is invoked.
C5_ResolveExactlyOne ==
    /\ CatalogEvents = [i \in 1..Len(hits) |-> Event("catalog", i)]
    /\ Len(hits) <= nComponents
    /\ missingPacks = SelectSeq([i \in 1..Len(hits) |-> i],
                                LAMBDA i : hits[i] = 1)
    /\ \A i \in DOMAIN hits :
           /\ hits[i] = 0 => (Done /\ result = ErrOn("NotFound", i))
           /\ hits[i] > 1 => (Done /\ result = ErrOn("Ambiguous", i))
           /\ hits[i] = CatalogFailed =>
                  (Done /\ result = ErrOn("CatalogError", i))
           /\ hits[i] # 1 =>
                  /\ i = Len(hits)
                  /\ PullEvents = <<>>
                  /\ ~Called("select", 0)
                  /\ selected = <<>>
                  /\ StageEvents = <<>>
    /\ PullEvents # <<>> => Len(hits) = nComponents

C5_Witness ==
    /\ Done
    /\ hits = <<1, 0>>
    /\ missingPacks = <<1>>
    /\ result = ErrOn("NotFound", 2)
    /\ PullEvents = <<>>

\* C6: a failure while pulling a resolved dependency propagates: whenever a
\* pull of a resolved package fails, Build does not go on to run
\* configure/prepare/build and does not return success.
C6_PullFailurePropagates ==
    pullErrs # {} =>
        /\ StageEvents = <<>>
        /\ ~(Done /\ result = Nil)

ExpectedStagesOf(j) ==
    (IF opts.NoConfigure THEN <<>> ELSE <<Event("configure", j)>>)
    \o (IF opts.NoPrepare THEN <<>> ELSE <<Event("prepare", j)>>)
    \o <<Event("build", j)>>

RECURSIVE ExpectedStages(_, _)
ExpectedStages(j, n) ==
    IF j > n THEN <<>> ELSE ExpectedStagesOf(j) \o ExpectedStages(j + 1, n)

\* C7: for each selected target the stages are invoked in the order
\* Configure, Prepare, Build; Configure iff NoConfigure is false, Prepare
\* iff NoPrepare is false, Build exactly once per selected target; targets
\* are processed one at a time in selection order.
C7_StagesInOrder ==
    /\ IsPrefix(StageEvents, ExpectedStages(1, Len(selected)))
    /\ (Done /\ selected # <<>>) =>
           StageEvents = ExpectedStages(1, Len(selected))

C7_Witness ==
    /\ Done
    /\ result = Nil
    /\ opts.NoConfigure /\ ~opts.NoPrepare
    /\ selected = <<TargetA, TargetB>>
    /\ StageEvents = <<Event("prepare", 1), Event("build", 1),
                       Event("prepare", 2), Event("build", 2)>>

Attempted(j) ==
    /\ ~opts.NoConfigure => Called("configure", j)
    /\ ~opts.NoPrepare => Called("prepare", j)
    /\ Called("build", j)

\* C8: a stage error for one target never blocks sibling targets: whatever
\* the outcome of the stages of earlier targets, every later selected target
\* still has its non-skipped configure/prepare/build stages attempted.
C8_FailureDoesNotBlockSiblings ==
    Done =>
        \A e \in stageErrs :
            \A j \in DOMAIN selected : j > e[2] => Attempted(j)

C8_Witness ==
    /\ Done
    /\ Len(selected) = 2
    /\ stageErrs = {<<"configure", 1>>, <<"prepare", 1>>, <<"build", 1>>}
    /\ Attempted(2)

\* C9: any configure, prepare or build stage error for a target is reported
\* with that target's identity: whenever a stage of a selected target fails,
\* the operation surfaces an error or warning for that target through its
\* returned result or the log, and does not complete as a plain success.
C9_StageErrorReported ==
    Done =>
        \A e \in stageErrs :
            \/ (result.kind = "StageError" /\ result.subject = e[2])
            \/ \E k \in DOMAIN log : log[k].target = selected[e[2]].name

NoMatch ==
    \A i \in DOMAIN targets :
        ~Matches(targets[i], opts.Architecture, opts.Platform, opts.Target)

\* C10: Build with a filter triple that matches no target of the project is
\* terminal: it fails, with the "no targets selected" error once selection
\* is reached, and invokes no configure, prepare or build stage.
C10_EmptySelectionTerminal ==
    NoMatch =>
        /\ StageEvents = <<>>
        /\ Done => result.kind \notin {"nil", "running"}
        /\ Called("select", 0) => (Done /\ result = Err("NoTargets"))

C10_Witness ==
    /\ Done
    /\ targets = <<TargetA, TargetB>>
    /\ opts.Architecture = "x86_64" /\ opts.Platform = "xen"
    /\ opts.Target = ""
    /\ Called("select", 0)
    /\ result = Err("NoTargets")

NextStageOf(op) ==
    IF op = "configure" /\ ~opts.NoPrepare THEN "prepare" ELSE "build"

\* A failed Configure or Prepare call is followed at once by the next
\* non-skipped stage of the same target; while that stage has not been
\* invoked yet the command is still running inside that target's iteration.
NextStageFollows ==
    \A k \in DOMAIN events :
        (events[k] \in stageErrs /\ events[k][1] \in {"configure", "prepare"}) =>
            IF k < Len(events)
            THEN events[k + 1] = Event(NextStageOf(events[k][1]), events[k][2])
            ELSE /\ pc \in {"prepare", "build"}
                 /\ ti = events[k][2]
                 /\ result = Running

LoopReachesEnd ==
    /\ Done
    /\ result = Nil
    /\ \A j \in DOMAIN selected : Attempted(j)

\* C21: within a single target the outcome of one stage never gates the
\* next: after Configure fails for a target, Prepare (unless skipped) and
\* Build are still invoked for that same target, and after Prepare fails
\* Build is still invoked; once targets are selected the per-target run
\* always reaches the Build stage and the loop always reaches its end.
C21_StageOutcomeNeverGates ==
    /\ []NextStageFollows
    /\ (Called("select", 0) /\ selected # <<>>) ~> LoopReachesEnd

C21_Witness ==
    /\ Done
    /\ result = Nil
    /\ ~opts.NoConfigure /\ ~opts.NoPrepare
    /\ Len(selected) = 2
    /\ {<<"configure", 1>>, <<"prepare", 1>>, <<"prepare", 2>>} \subseteq stageErrs
    /\ Called("prepare", 1) /\ Called("build", 1) /\ Called("build", 2)

---------------------------------------------------------------------------
(* Pkg.PkgCmd *)

PkgTarget(n, a, p, f) == [name |-> n, arch |-> a, plat |-> p, format |-> f]

TargetFormats == {"", "raw", "auto"}
FormatArgs == {"auto", "", "qcow2"}

PkgUniverse ==
    {PkgTarget(t.name, t.arch, t.plat, f) :
        t \in BuildUniverse, f \in TargetFormats}

PkgOpts(a, p, n, f) ==
    [Architecture |-> a, Platform |-> p, Target |-> n, Format |-> f]

InitPkg ==
    /\ pc = "start"
    /\ targets \in {ts \in SeqsUpTo(PkgUniverse, MaxTargets) : UniqueNames(ts)}
    /\ \E a \in ArchArgs, p \in PlatArgs, n \in NameArgs, f \in FormatArgs :
           opts = PkgOpts(a, p, n, f)
    /\ nComponents = 0
    /\ selected = <<>>
    /\ ci = 1 /\ pi = 1 /\ ti = 1
    /\ missingPacks = <<>>
    /\ hits = <<>>
    /\ events = <<>>
    /\ pullErrs = {}
    /\ stageErrs = {}
    /\ log = <<>>
    /\ result = Running
    /\ InitExt

\* The case list of `switch true` in the target loop.
PkgCase(t, o) ==
    \/ (Empty(o.Target) /\ Empty(o.Architecture) /\ Empty(o.Platform))
    \/ (~Empty(o.Target) /\ t.name = o.Target)
    \/ (~Empty(o.Architecture) /\ Empty(o.Platform)
            /\ t.arch = o.Architecture)
    \/ (~Empty(o.Platform) /\ Empty(o.Architecture) /\ t.plat = o.Platform)
    \/ (~Empty(o.Platform) /\ ~Empty(o.Architecture)
            /\ t.arch = o.Architecture /\ t.plat = o.Platform)

\* ResolveFormat preferring the target's declared format to the override.
ResolveFormatMut(override, declared) ==
    IF declared # "" THEN declared
    ELSE IF override # "auto" THEN override
    ELSE ""

\* var format; if opts.Format != "auto" {...} else if targ.Format() != "" {...}
ResolveFormat(override, declared) ==
    IF override # "auto" THEN override
    ELSE IF declared # "" THEN declared
    ELSE ""

\* workdir and app.NewProjectFromOptions, then the head of the target loop.
PkgLoadProject ==
    /\ pc = "start"
    /\ events' = Append(events, Event("load", 0))
    /\ \E ok \in BOOLEAN :
           IF ~ok
           THEN pc' = "done" /\ result' = Err("LoadError")
           ELSE IF Len(targets) = 0
           THEN pc' = "done" /\ result' = Nil
           ELSE pc' = "match" /\ UNCHANGED result
    /\ ti' = 1
    /\ UNCHANGED <<opts, targets, nComponents, selected, ci, pi,
                   missingPacks, hits, pullErrs, stageErrs, log, ext>>

\* The end of one iteration of the target loop: the next target, or
\* `return nil` after the last one.
PkgAdvance ==
    IF ti = Len(targets)
    THEN pc' = "done" /\ result' = Nil /\ UNCHANGED ti
    ELSE pc' = "match" /\ ti' = ti + 1 /\ UNCHANGED result

\* `switch true { case ...: ... default: continue }` up to the choice of
\* the format.
PkgMatch ==
    /\ pc = "match"
    /\ IF PkgCase(targets[ti], opts)
       THEN /\ format' = ResolveFormat(opts.Format, targets[ti].format)
            /\ pc' = "route"
            /\ UNCHANGED <<ti, result>>
       ELSE /\ PkgAdvance
            /\ UNCHANGED format
    /\ UNCHANGED <<opts, targets, nComponents, selected, ci, pi,
                   missingPacks, hits, events, pullErrs, stageErrs, log,
                   cancelledAt, args, env, queries, pm, routes, probes, workdir, confOpts>>

\* pm := packmanager.G(ctx); if format != "auto" { pm, err = pm.From(format) }
PkgRoute ==
    /\ pc = "route"
    /\ IF format # "auto"
       THEN /\ events' = Append(events, Event("from", ti))
            /\ \E ok \in BOOLEAN :
                   IF ok
                   THEN /\ pm' = format
                        /\ pc' = "snapshot"
                        /\ UNCHANGED <<result, stageErrs>>
                   ELSE /\ pm' = DefaultPM
                        /\ pc' = "done"
                        /\ result' = ErrOn("FromError", ti)
                        /\ stageErrs' = stageErrs \cup {<<"from", ti>>}
       ELSE /\ pm' = DefaultPM
            /\ pc' = "snapshot"
            /\ UNCHANGED <<events, result, stageErrs>>
    /\ routes' = Append(routes, [target |-> ti, format |-> format,
                                 from |-> (format # "auto")])
    /\ UNCHANGED <<opts, targets, nComponents, selected, ci, pi, ti,
                   missingPacks, hits, pullErrs, log,
                   cancelledAt, args, env, queries, format, probes, workdir, confOpts>>

\* popts and target.NewTargetFromOptions(...)
PkgSnapshot ==
    /\ pc = "snapshot"
    /\ events' = Append(events, Event("snapshot", ti))
    /\ \E ok \in BOOLEAN :
           IF ok
           THEN pc' = "pack" /\ UNCHANGED <<result, stageErrs>>
           ELSE /\ pc' = "done"
                /\ result' = ErrOn("SnapshotError", ti)
                /\ stageErrs' = stageErrs \cup {<<"snapshot", ti>>}
    /\ UNCHANGED <<opts, targets, nComponents, selected, ci, pi, ti,
                   missingPacks, hits, pullErrs, log, ext>>

\* PkgPack going on to the next target when Pack returns an error.
PkgPackMut ==
    /\ pc = "pack"
    /\ events' = Append(events, Event("pack", ti))
    /\ \E ok \in CallOutcomes :
           /\ stageErrs' = IF ok THEN stageErrs
                           ELSE stageErrs \cup {<<"pack", ti>>}
           /\ PkgAdvance
    /\ UNCHANGED <<opts, targets, nComponents, selected, ci, pi,
                   missingPacks, hits, pullErrs, log, ext>>

\* if _, err := pm.Pack(ctx, targWithName, popts...); err != nil { return err }
PkgPack ==
    /\ pc = "pack"
    /\ events' = Append(events, Event("pack", ti))
    /\ \E ok \in CallOutcomes :
           IF ok
           THEN PkgAdvance /\ UNCHANGED stageErrs
           ELSE /\ pc' = "done"
                /\ result' = ErrOn("PackError", ti)
                /\ stageErrs' = stageErrs \cup {<<"pack", ti>>}
                /\ UNCHANGED ti
    /\ UNCHANGED <<opts, targets, nComponents, selected, ci, pi,
                   missingPacks, hits, pullErrs, log, ext>>

NextPkg ==
    \/ PkgLoadProject
    \/ PkgMatch
    \/ PkgRoute
    \/ PkgSnapshot
    \/ PkgPack

SpecPkg == InitPkg /\ [][NextPkg]_vars

---------------------------------------------------------------------------
(* Claims about Package, checked under SpecPkg *)

IsPackEvent(e) == e[1] = "pack"
PackEvents == SelectSeq(events, IsPackEvent)
PackedTargets == [k \in 1..Len(PackEvents) |-> targets[PackEvents[k][2]]]

\* C11: Package with a filter triple that matches no target of the project
\* is terminal: once the project is loaded it fails with the "no targets
\* selected" error instead of returning success after packing nothing.
C11_PkgEmptySelectionFails ==
    (Done /\ NoMatch /\ result.kind # "LoadError") =>
        result = Err("NoTargets")

\* C12: the format used to route a target to a backend is the caller's
\* override when the override is not "auto", otherwise the target's declared
\* format when that is non-empty: declared "raw" with override "auto" routes
\* with "raw", and override "qcow2" routes with "qcow2" whatever is declared.
C12_RoutedFormat ==
    \A k \in DOMAIN routes :
        LET r == routes[k]
            declared == targets[r.target].format
        IN  /\ opts.Format # "auto" => r.format = opts.Format
            /\ (opts.Format = "auto" /\ declared # "") => r.format = declared
            /\ (opts.Format = "auto" /\ declared = "raw") => r.format = "raw"
            /\ opts.Format = "qcow2" => r.format = "qcow2"

C12_Witness ==
    /\ Done
    /\ opts.Format = "auto"
    /\ Len(targets) = 2
    /\ targets[1].format = "raw"
    /\ Len(routes) = 2
    /\ routes[1].format = "raw"

\* C13: a resolved format that is empty or "auto" selects the process-wide
\* default backend without calling from(format); from(format) is called only
\* for a non-empty format other than "auto".  In particular Package with
\* override "auto" (or empty) on a target with no declared format packs with
\* the default backend.
C13_DefaultBackendForEmptyOrAuto ==
    \A k \in DOMAIN routes :
        routes[k].from <=> routes[k].format \notin {"", "auto"}

PkgErrKind(op) ==
    CASE op = "from" -> "FromError"
      [] op = "snapshot" -> "SnapshotError"
      [] op = "pack" -> "PackError"

\* C14: errors propagate per target with no retry: pack is invoked at most
\* once per matching target, in project target order, and the first routing,
\* snapshot-construction or pack error is returned as the result of Package,
\* after which no later target is packed.
C14_PkgFirstErrorReturned ==
    /\ \A k \in DOMAIN PackEvents :
           /\ Matches(targets[PackEvents[k][2]], opts.Architecture,
                      opts.Platform, opts.Target)
           /\ \A m \in DOMAIN PackEvents :
                  k < m => PackEvents[k][2] < PackEvents[m][2]
    /\ Cardinality(stageErrs) <= 1
    /\ \A e \in stageErrs :
           /\ Done
           /\ result = ErrOn(PkgErrKind(e[1]), e[2])
           /\ events[Len(events)] = Event(e[1], e[2])
           /\ \A k \in DOMAIN PackEvents : PackEvents[k][2] <= e[2]

C14_Witness ==
    /\ Done
    /\ opts.Architecture = "" /\ opts.Platform = "" /\ opts.Target = ""
    /\ Len(targets) = 2
    /\ stageErrs = {<<"pack", 1>>}
    /\ result = ErrOn("PackError", 1)
    /\ PackEvents = <<Event("pack", 1)>>

\* C20: Package uses the same selection as the Selector: when no error
\* occurs, the sequence of targets for which pack is invoked equals the
\* sequence FilterTargets returns for the same targets and filter triple
\* (same members, same order, same multiplicity).
C20_PkgSelectsAsFilterTargets ==
    (Done /\ result = Nil) =>
        PackedTargets = FilterTargets(targets, opts.Architecture,
                                      opts.Platform, opts.Target)

---------------------------------------------------------------------------
(* Pull.PullCmd *)

Locators == {"lib-a", "lib-b", "lib-c", "lib-d"}
ManagerArgs == {"", "auto", "oci"}
ComponentNames == <<"app-x", "lib-y", "lib-z", "plat-w">>
PullWorkdir == "."
ProbedPM == "probed"
TemplateComponent == 0

Injective(f) == \A i, j \in DOMAIN f : f[i] = f[j] => i = j

PullOpts(m, fc) == [Manager |-> m, ForceCache |-> fc]

\* packmanager.CatalogQuery
CatalogQuery(n, v, src, types, nc) ==
    [name |-> n, version |-> v, source |-> src, types |-> types,
     noCache |-> nc]

ComponentQuery(i, o) ==
    CatalogQuery(ComponentNames[i], "v", "src", {"type"}, ~o.ForceCache)

NameQuery(arg, o) == CatalogQuery(arg, "", "", {}, ~o.ForceCache)

InitPull ==
    /\ pc = "start"
    /\ \E m \in ManagerArgs, fc \in BOOLEAN : opts = PullOpts(m, fc)
    /\ \/ /\ env = [isDir |-> TRUE]
          /\ args \in {<<>>, <<"appdir">>}
          /\ nComponents \in 0..MaxComponents
       \/ /\ env = [isDir |-> FALSE]
          /\ args \in {a \in SeqsUpTo(Locators, MaxArgs) : Injective(a)}
          /\ nComponents = 0
    /\ targets = <<>>
    /\ selected = <<>>
    /\ ci = 1 /\ pi = 1 /\ ti = 1
    /\ missingPacks = <<>>
    /\ hits = <<>>
    /\ events = <<>>
    /\ pullErrs = {}
    /\ stageErrs = {}
    /\ log = <<>>
    /\ result = Running
    /\ cancelledAt = NotCancelled
    /\ queries = <<>>
    /\ pm = DefaultPM
    /\ format = ""
    /\ routes = <<>>
    /\ probes = <<>>
    /\ workdir = ""
    /\ confOpts = <<>>

\* Where the command goes once `queries` is built.
AfterQueries(qs) == IF Len(qs) = 0 THEN "done" ELSE "query"
ResultAfterQueries(qs) == IF Len(qs) = 0 THEN Nil ELSE Running

\* workdir, the default of args, and the forced package manager.
PullStart ==
    /\ pc = "start"
    /\ args' = IF Len(args) = 0 THEN <<PullWorkdir>> ELSE args
    /\ IF Len(opts.Manager) > 0 /\ opts.Manager # "auto"
       THEN /\ events' = Append(events, Event("from", 0))
            /\ routes' = Append(routes, [target |-> 0,
                                         format |-> opts.Manager,
                                         from |-> TRUE])
            /\ \E ok \in BOOLEAN :
                   IF ok
                   THEN /\ pm' = opts.Manager
                        /\ pc' = IF env.isDir THEN "dirload" ELSE "probe"
                        /\ UNCHANGED result
                   ELSE /\ pc' = "done"
                        /\ result' = Err("FromError")
                        /\ UNCHANGED pm
       ELSE /\ pc' = IF env.isDir THEN "dirload" ELSE "probe"
            /\ routes' = Append(routes, [target |-> 0,
                                         format |-> opts.Manager,
                                         from |-> FALSE])
            /\ UNCHANGED <<events, pm, result>>
    /\ ci' = 1
    /\ UNCHANGED <<opts, targets, nComponents, selected, pi, ti,
                   missingPacks, hits, pullErrs, stageErrs, log,
                   cancelledAt, env, queries, format, probes, workdir, confOpts>>

\* Directory mode: app.NewProjectFromOptions(workdir = args[0])
PullDirLoad ==
    /\ pc = "dirload"
    /\ events' = Append(events, Event("load", 0))
    /\ \E ok \in BOOLEAN :
           IF ok THEN pc' = "components" /\ UNCHANGED result
           ELSE pc' = "done" /\ result' = Err("LoadError")
    /\ UNCHANGED <<opts, targets, nComponents, selected, ci, pi, ti,
                   missingPacks, hits, pullErrs, stageErrs, log, ext>>

\* if _, err = project.Components(ctx); err != nil { ...template... }
PullDirComponents ==
    /\ pc = "components"
    /\ events' = Append(events, Event("components", 0))
    /\ \E ok \in CallOutcomes :
           pc' = IF ok THEN "place" ELSE "template"
    /\ UNCHANGED <<opts, targets, nComponents, selected, ci, pi, ti,
                   missingPacks, hits, pullErrs, stageErrs, log, result, ext>>

\* PullTemplate taking the first package when the catalog returns several.
PullTemplateMut ==
    /\ pc = "template"
    /\ \E n \in CatalogOutcomes :
           /\ events' = Append(events, Event("template-catalog", n))
           /\ IF n = CatalogFailed
              THEN pc' = "done" /\ result' = ErrOn("CatalogError",
                                                   TemplateComponent)
              ELSE IF n = 0
              THEN pc' = "done" /\ result' = ErrOn("NotFound",
                                                   TemplateComponent)
              ELSE pc' = "templatepull" /\ UNCHANGED result
    /\ UNCHANGED <<opts, targets, nComponents, selected, ci, pi, ti,
                   missingPacks, hits, pullErrs, stageErrs, log, ext>>

\* packages, err = pm.Catalog(ctx, template query) and the one/zero/many
\* test of its result.
PullTemplate ==
    /\ pc = "template"
    /\ \E n \in CatalogOutcomes :
           /\ events' = Append(events, Event("template-catalog", n))
           /\ IF n = CatalogFailed
              THEN pc' = "done" /\ result' = ErrOn("CatalogError",
                                                   TemplateComponent)
              ELSE IF n = 0
              THEN pc' = "done" /\ result' = ErrOn("NotFound",
                                                   TemplateComponent)
              ELSE IF n > 1
              THEN pc' = "done" /\ result' = ErrOn("Ambiguous",
                                                   TemplateComponent)
              ELSE pc' = "templatepull" /\ UNCHANGED result
    /\ UNCHANGED <<opts, targets, nComponents, selected, ci, pi, ti,
                   missingPacks, hits, pullErrs, stageErrs, log, ext>>

\* packages[0].Pull(ctx, ...): the returned value is not assigned.
PullTemplatePull ==
    /\ pc = "templatepull"
    /\ events' = Append(events, Event("template-pull", 0))
    /\ pc' = "place"
    /\ UNCHANGED <<opts, targets, nComponents, selected, ci, pi, ti,
                   missingPacks, hits, pullErrs, stageErrs, log, result, ext>>

\* unikraft.PlaceComponent, the template's NewProjectFromOptions and
\* templateProject.MergeTemplate, each returning its error.
PullMergeTemplate ==
    /\ pc = "place"
    /\ \E outcome \in {"ok", "PlaceError", "LoadError", "MergeError"} :
           /\ events' =
                  events
                  \o <<Event("place", 0)>>
                  \o (IF outcome # "PlaceError"
                      THEN <<Event("template-load", 0)>> ELSE <<>>)
                  \o (IF outcome \in {"ok", "MergeError"}
                      THEN <<Event("merge", 0)>> ELSE <<>>)
           /\ IF outcome = "ok"
              THEN pc' = "list" /\ UNCHANGED result
              ELSE pc' = "done" /\ result' = Err(outcome)
    /\ UNCHANGED <<opts, targets, nComponents, selected, ci, pi, ti,
                   missingPacks, hits, pullErrs, stageErrs, log, ext>>

\* components, err := project.Components(ctx) and one query per component.
PullDirList ==
    /\ pc = "list"
    /\ events' = Append(events, Event("components", 1))
    /\ \E ok \in CallOutcomes :
           IF ok
           THEN /\ queries' = [i \in 1..nComponents |->
                                  [pm |-> pm, query |-> ComponentQuery(i, opts)]]
                /\ pc' = AfterQueries(queries')
                /\ result' = ResultAfterQueries(queries')
           ELSE /\ pc' = "done"
                /\ result' = Err("ComponentsError")
                /\ UNCHANGED queries
    /\ pi' = 1
    /\ UNCHANGED <<opts, targets, nComponents, selected, ci, ti,
                   missingPacks, hits, pullErrs, stageErrs, log,
                   cancelledAt, args, env, pm, format, routes, probes, workdir, confOpts>>

ProbeOutcomes ==
    IF Cancelled THEN {"error"} ELSE {"compatible", "incompatible", "error"}

\* PullProbe returning the probe's error instead of skipping the argument.
PullProbeMut ==
    /\ pc = "probe"
    /\ ci <= Len(args)
    /\ events' = Append(events, Event("probe", ci))
    /\ \E outcome \in ProbeOutcomes :
           /\ probes' = Append(probes, outcome)
           /\ queries' = IF outcome = "compatible"
                         THEN Append(queries,
                                     [pm |-> ProbedPM,
                                      query |-> NameQuery(args[ci], opts)])
                         ELSE queries
           /\ IF outcome # "compatible"
              THEN pc' = "done" /\ result' = ErrOn("Incompatible", ci)
              ELSE /\ pc' = IF ci = Len(args) THEN AfterQueries(queries')
                            ELSE "probe"
                   /\ result' = IF ci = Len(args)
                                THEN ResultAfterQueries(queries')
                                ELSE Running
    /\ ci' = ci + 1
    /\ pi' = 1
    /\ UNCHANGED <<opts, targets, nComponents, selected, ti,
                   missingPacks, hits, pullErrs, stageErrs, log,
                   cancelledAt, args, env, pm, format, routes, workdir, confOpts>>

\* One iteration of `for _, arg := range args` of list mode.
PullProbe ==
    /\ pc = "probe"
    /\ ci <= Len(args)
    /\ events' = Append(events, Event("probe", ci))
    /\ \E outcome \in ProbeOutcomes :
           /\ probes' = Append(probes, outcome)
           /\ queries' = IF outcome = "compatible"
                         THEN Append(queries,
                                     [pm |-> ProbedPM,
                                      query |-> NameQuery(args[ci], opts)])
                         ELSE queries
    /\ pc' = IF ci = Len(args) THEN AfterQueries(queries') ELSE "probe"
    /\ result' = IF ci = Len(args) THEN ResultAfterQueries(queries')
                 ELSE Running
    /\ ci' = ci + 1
    /\ pi' = 1
    /\ UNCHANGED <<opts, targets, nComponents, selected, ti,
                   missingPacks, hits, pullErrs, stageErrs, log,
                   cancelledAt, args, env, pm, format, routes, workdir, confOpts>>

\* The end of one iteration of `for _, c := range queries`: the next query,
\* or `return nil` after the last one.
PullNextQuery ==
    IF pi = Len(queries)
    THEN pc' = "done" /\ result' = Nil /\ UNCHANGED pi
    ELSE pc' = "query" /\ pi' = pi + 1 /\ UNCHANGED result

Warning(kind, name, fmt) ==
    [level |-> "warn", kind |-> kind, target |-> name, format |-> fmt]

\* PullQuery returning the catalog's error instead of skipping the query.
PullQueryMut ==
    /\ pc = "query"
    /\ events' = Append(events, Event("catalog", pi))
    /\ \E n \in CatalogOutcomes :
           /\ hits' = Append(hits, n)
           /\ IF n = CatalogFailed
              THEN /\ pc' = "done" /\ result' = ErrOn("CatalogError", pi)
                   /\ UNCHANGED <<pi, log>>
              ELSE IF n = 0
              THEN /\ log' = Append(log,
                                    Warning("could not find",
                                            queries[pi].query.name, ""))
                   /\ PullNextQuery
              ELSE /\ pc' = "pulls"
                   /\ UNCHANGED <<pi, log, result>>
    /\ ti' = 1
    /\ UNCHANGED <<opts, targets, nComponents, selected, ci,
                   missingPacks, pullErrs, stageErrs, ext>>

\* next, err := c.pm.Catalog(ctx, c.query) with its two `continue`s.
PullQuery ==
    /\ pc = "query"
    /\ events' = Append(events, Event("catalog", pi))
    /\ \E n \in CatalogOutcomes :
           /\ hits' = Append(hits, n)
           /\ IF n = CatalogFailed
              THEN /\ log' = Append(log,
                                    Warning("catalog error",
                                            queries[pi].query.name, pm))
                   /\ PullNextQuery
              ELSE IF n = 0
              THEN /\ log' = Append(log,
                                    Warning("could not find",
                                            queries[pi].query.name, ""))
                   /\ PullNextQuery
              ELSE /\ pc' = "pulls"
                   /\ UNCHANGED <<pi, log, result>>
    /\ ti' = 1
    /\ UNCHANGED <<opts, targets, nComponents, selected, ci,
                   missingPacks, pullErrs, stageErrs, ext>>

\* One iteration of `for _, p := range next`: the value p.Pull returns is
\* not assigned.
PullPackage ==
    /\ pc = "pulls"
    /\ events' = Append(events, Event("pull", pi))
    /\ IF ti = hits[pi]
       THEN PullNextQuery /\ UNCHANGED ti
       ELSE ti' = ti + 1 /\ UNCHANGED <<pc, pi, result>>
    /\ UNCHANGED <<opts, targets, nComponents, selected, ci,
                   missingPacks, hits, pullErrs, stageErrs, log, ext>>

NextPull ==
    \/ PullStart
    \/ PullDirLoad
    \/ PullDirComponents
    \/ PullTemplate
    \/ PullTemplatePull
    \/ PullMergeTemplate
    \/ PullDirList
    \/ PullProbe
    \/ PullQuery
    \/ PullPackage

SpecPull == InitPull /\ [][NextPull]_vars

---------------------------------------------------------------------------
(* Claims about Pull, checked under SpecPull *)

IsProbeEvent(e) == e[1] = "probe"
ProbeEvents == SelectSeq(events, IsProbeEvent)

CountOf(e) == Cardinality({k \in DOMAIN events : events[k] = e})

\* The arguments a backend claimed, in argument order.
CompatibleArgs ==
    SelectSeq([i \in 1..Len(probes) |-> i],
              LAMBDA i : probes[i] = "compatible")

ListMode == ~env.isDir /\ pc # "start" /\ result.kind # "FromError"

Executing == pc \in {"query", "pulls", "done"}

\* C15: in list mode every argument is probed for a compatible backend; an
\* argument with no compatible backend (or whose probe errors) is skipped
\* without failing the operation, and each compatible argument yields
\* exactly one catalog query keyed only by its name, in argument order.
\* Given three locators of which one is incompatible, the other two are
\* queried (and what the catalog returns for them pulled) and Pull returns
\* success.
C15_ListModeSkipsIncompatible ==
    ListMode =>
        /\ ProbeEvents = [i \in 1..Len(probes) |-> Event("probe", i)]
        /\ Executing => Len(probes) = Len(args)
        /\ Len(queries) = Len(CompatibleArgs)
        /\ \A k \in DOMAIN queries :
               /\ queries[k].query.name = args[CompatibleArgs[k]]
               /\ queries[k].query.version = ""
               /\ queries[k].query.source = ""
               /\ queries[k].query.types = {}
        /\ Done =>
               /\ result = Nil
               /\ \A k \in DOMAIN queries :
                      /\ CountOf(Event("catalog", k)) = 1
                      /\ hits[k] > 0 => CountOf(Event("pull", k)) = hits[k]

C15_Witness ==
    /\ ListMode /\ Done
    /\ Len(args) = 3
    /\ probes = <<"compatible", "incompatible", "compatible">>
    /\ hits = <<1, 1>>
    /\ CountOf(Event("pull", 1)) = 1
    /\ CountOf(Event("pull", 2)) = 1
    /\ result = Nil

\* C16: in the execution phase every accumulated (backend, query) pair is
\* run in order whatever happened before: a catalog query that errors or
\* returns no package is skipped with a warning and is never fatal, every
\* package of every non-empty result is pulled, and Pull returns success
\* once all queries were attempted.
C16_QueriesAllAttempted ==
    /\ CatalogEvents = [i \in 1..Len(hits) |-> Event("catalog", i)]
    /\ Len(hits) <= Len(queries)
    /\ Len(log) = Cardinality({i \in DOMAIN hits : hits[i] <= 0})
    /\ \A k \in DOMAIN log :
           /\ log[k].level = "warn"
           /\ \E i \in DOMAIN hits :
                  hits[i] <= 0 /\ log[k].target = queries[i].query.name
    /\ hits # <<>> => result \in {Running, Nil}
    /\ (Done /\ queries # <<>>) =>
           /\ result = Nil
           /\ Len(hits) = Len(queries)
           /\ \A i \in DOMAIN hits :
                  CountOf(Event("pull", i)) = IF hits[i] > 0 THEN hits[i] ELSE 0

C16_Witness ==
    /\ Done
    /\ Len(queries) = 3
    /\ hits = <<CatalogFailed, 0, 2>>
    /\ Len(log) = 2
    /\ CountOf(Event("pull", 3)) = 2
    /\ result = Nil

IsAfterTemplate(e) ==
    e[1] \in {"template-pull", "place", "template-load", "merge", "catalog",
              "pull"}

\* C17: in directory mode on a project whose components cannot be
\* enumerated, the template is resolved with the one/zero/many rule: when
\* the catalog returns 0 packages (or 2 or more) for the template, Pull fails
\* with a not-found (resp. ambiguous) error attributed to the template
\* component before any template pull, template merge or per-component
\* catalog query runs.
C17_TemplateResolvedFirst ==
    \A k \in DOMAIN events :
        events[k][1] = "template-catalog" =>
            /\ env.isDir
            /\ events[k - 1] = Event("components", 0)
            /\ SelectSeq(SubSeq(events, 1, k), IsAfterTemplate) = <<>>
            /\ events[k][2] = 0 =>
                   /\ Done /\ result = ErrOn("NotFound", TemplateComponent)
                   /\ k = Len(events) /\ queries = <<>>
            /\ events[k][2] > 1 =>
                   /\ Done /\ result = ErrOn("Ambiguous", TemplateComponent)
                   /\ k = Len(events) /\ queries = <<>>

C17_Witness ==
    /\ Done
    /\ env.isDir
    /\ events[Len(events)] = Event("template-catalog", 0)
    /\ result = ErrOn("NotFound", TemplateComponent)

---------------------------------------------------------------------------
(* Cancellation of the shared context while Build runs *)

\* The caller cancels ctx: from now on every call handed ctx returns an
\* error (CallOutcomes, CatalogOutcomes).  The command itself never reads
\* ctx.Err() or ctx.Done().
CancelContext ==
    /\ pc # "done"
    /\ ~Cancelled
    /\ cancelledAt' = Len(events)
    /\ UNCHANGED <<pc, opts, targets, nComponents, selected, ci, pi, ti,
                   missingPacks, hits, events, pullErrs, stageErrs, log,
                   result, args, env, queries, pm, format, routes, probes, workdir, confOpts>>

NextBuildCancel == NextBuild \/ CancelContext

SpecBuildCancel == InitBuild /\ [][NextBuildCancel]_vars

BoundaryOps == {"catalog", "pull", "configure", "prepare", "build", "pack"}

\* C18: cancellation is honoured at every blocking boundary: once the shared
\* context is cancelled during a catalog query, pull, stage or pack call,
\* the operation aborts promptly: after the call in progress it starts no
\* further stage, query, pull or pack, and it does not report success.
\* The call in progress at the cancellation is events[cancelledAt + 1].
C18_CancellationAborts ==
    (/\ Cancelled
     /\ Len(events) > cancelledAt
     /\ events[cancelledAt + 1][1] \in BoundaryOps) =>
        /\ \A k \in DOMAIN events :
               k > cancelledAt + 1 => events[k][1] \notin BoundaryOps
        /\ ~(Done /\ result = Nil)

---------------------------------------------------------------------------
(* Set.SetCmd *)

\* An argument is a string, kept as the sequence of its characters.
ArgChars == {"K", "="}
ArgStrings == SeqsUpTo(ArgChars, MaxArgLen)

WorkdirArgs == {"", "/proj"}
Cwd == "/cwd"

\* strings.ContainsRune(arg, '=')
ContainsEq(arg) == \E k \in DOMAIN arg : arg[k] = "="

\* strings.HasSuffix(arg, "=")
HasSuffixEq(arg) == Len(arg) > 0 /\ arg[Len(arg)] = "="

Malformed(arg) == ~ContainsEq(arg) \/ HasSuffixEq(arg)

\* fmt.Sprintf("%s/.config", workdir)
DotConfigPath(w) == w \o "/.config"

InitSet ==
    /\ pc = "start"
    /\ \E w \in WorkdirArgs : opts = [Workdir |-> w]
    /\ args \in SeqsUpTo(ArgStrings, MaxSetArgs)
    /\ \E c \in BOOLEAN, d \in {"present", "absent", "unreadable"} :
           env = [cwdOk |-> c, dotconfig |-> d]
    /\ targets = <<>>
    /\ nComponents = 0
    /\ selected = <<>>
    /\ ci = 1 /\ pi = 1 /\ ti = 1
    /\ missingPacks = <<>>
    /\ hits = <<>>
    /\ events = <<>>
    /\ pullErrs = {}
    /\ stageErrs = {}
    /\ log = <<>>
    /\ result = Running
    /\ cancelledAt = NotCancelled
    /\ queries = <<>>
    /\ pm = DefaultPM
    /\ format = ""
    /\ routes = <<>>
    /\ probes = <<>>
    /\ workdir = ""
    /\ confOpts = <<>>

\* The first malformed argument, 0 if there is none.
FirstMalformed(as) ==
    IF \E k \in DOMAIN as : Malformed(as[k])
    THEN CHOOSE k \in DOMAIN as :
             Malformed(as[k]) /\ \A j \in 1..(k - 1) : ~Malformed(as[j])
    ELSE 0

\* len(args) == 0, the working directory, and the loop over the arguments.
SetCheckArgs ==
    /\ pc = "start"
    /\ IF Len(args) = 0
       THEN /\ pc' = "done" /\ result' = Err("NoOptions")
            /\ UNCHANGED <<workdir, confOpts>>
       ELSE IF opts.Workdir = "" /\ ~env.cwdOk
       THEN /\ pc' = "done" /\ result' = Err("GetwdError")
            /\ UNCHANGED <<workdir, confOpts>>
       ELSE /\ workdir' = IF opts.Workdir # "" THEN opts.Workdir ELSE Cwd
            /\ IF FirstMalformed(args) # 0
               THEN /\ pc' = "done"
                    /\ result' = ErrOn("Malformed", FirstMalformed(args))
                    /\ confOpts' = SubSeq(args, 1, FirstMalformed(args) - 1)
               ELSE /\ pc' = "stat"
                    /\ confOpts' = args
                    /\ UNCHANGED result
    /\ UNCHANGED <<opts, targets, nComponents, selected, ci, pi, ti,
                   missingPacks, hits, events, pullErrs, stageErrs, log,
                   cancelledAt, args, env, queries, pm, format, routes,
                   probes>>

\* SetStat going on to load the project when .config does not exist.
SetStatMut ==
    /\ pc = "stat"
    /\ events' = Append(events, Event("stat", 0))
    /\ pc' = "load"
    /\ UNCHANGED <<opts, targets, nComponents, selected, ci, pi, ti,
                   missingPacks, hits, pullErrs, stageErrs, log, result, ext>>

\* if _, err := os.Stat(dotconfig); os.IsNotExist(err) { return error }
SetStat ==
    /\ pc = "stat"
    /\ events' = Append(events, Event("stat", 0))
    /\ IF env.dotconfig = "absent"
       THEN /\ pc' = "done"
            /\ result' = ErrOn("DotConfigMissing", DotConfigPath(workdir))
       ELSE pc' = "load" /\ UNCHANGED result
    /\ UNCHANGED <<opts, targets, nComponents, selected, ci, pi, ti,
                   missingPacks, hits, pullErrs, stageErrs, log, ext>>

\* app.NewProjectFromOptions(..., app.WithProjectConfig(confOpts))
SetLoadProject ==
    /\ pc = "load"
    /\ events' = Append(events, Event("load", Len(confOpts)))
    /\ \E ok \in BOOLEAN :
           IF ok THEN pc' = "apply" /\ UNCHANGED result
           ELSE pc' = "done" /\ result' = Err("LoadError")
    /\ UNCHANGED <<opts, targets, nComponents, selected, ci, pi, ti,
                   missingPacks, hits, pullErrs, stageErrs, log, ext>>

\* return project.Set(ctx, nil)
SetApply ==
    /\ pc = "apply"
    /\ events' = Append(events, Event("set", 0))
    /\ \E ok \in CallOutcomes :
           result' = IF ok THEN Nil ELSE Err("SetError")
    /\ pc' = "done"
    /\ UNCHANGED <<opts, targets, nComponents, selected, ci, pi, ti,
                   missingPacks, hits, pullErrs, stageErrs, log, ext>>

NextSet ==
    \/ SetCheckArgs
    \/ SetStat
    \/ SetLoadProject
    \/ SetApply

SpecSet == InitSet /\ [][NextSet]_vars

IsLoadOrSet(e) == e[1] \in {"load", "set"}

\* C19: Set invoked on a workdir that has no `.config` file fails with an
\* error naming the expected path <workdir>/.config (once its arguments are
\* accepted and the workdir is known), and neither loads the project nor
\* applies any configuration value.
C19_SetNeedsDotConfig ==
    env.dotconfig = "absent" =>
        /\ SelectSeq(events, IsLoadOrSet) = <<>>
        /\ Done => result.kind \notin {"nil", "running"}
        /\ Called("stat", 0) =>
               /\ Done
               /\ result.kind = "DotConfigMissing"
               /\ result.subject =
                      (IF opts.Workdir # "" THEN opts.Workdir ELSE "/cwd")
                      \o "/.config"

C19_Witness ==
    /\ Done
    /\ env.dotconfig = "absent"
    /\ opts.Workdir = "/proj"
    /\ args = <<<<"K", "=", "K">>>>
    /\ result = ErrOn("DotConfigMissing", "/proj/.config")
    /\ events = <<Event("stat", 0)>>

====
